---- MODULE Spec2Model ----
(***************************************************************************)
(* Session orchestration of the PDF question-answer client.                *)
(*                                                                         *)
(* The state is the React state of App (frontend/src/App.tsx) together     *)
(* with the suspended continuations of handleFileUpload and                *)
(* handleSendQuestion (one per outstanding fetch) and the wall clock that  *)
(* Date.now() reads.  Handlers run to their first await, or from an await  *)
(* to their end, as one step: JavaScript is single threaded and React      *)
(* applies the state updates of one resumption together.                   *)
(*                                                                         *)
(* Texts are sequences of tokens; a JavaScript value that may be undefined *)
(* is <<>> (undefined) or <<v>> (the value v).                             *)
(***************************************************************************)
EXTENDS Integers, Sequences, FiniteSets, TLC

VARIABLES uploadedFile, messages, isTyping, isUploading, question,
          uploads, asks, now, last

store == <<uploadedFile, messages, isTyping, isUploading, question>>
vars == <<uploadedFile, messages, isTyping, isUploading, question,
          uploads, asks, now, last>>

----------------------------------------------------------------------------
(* Bounds of the model *)

MaxMessages == 4
MaxAsks == 2
MaxUploads == 2
MaxCoreMessages == 3
MaxLiveMessages == 3
ClockStart == 10
MaxClock == 11

----------------------------------------------------------------------------
(* Values *)

Undefined == <<>>
Some(v) == <<v>>
IsDefined(x) == x # Undefined
ValueOf(x) == x[1]

Whitespace == {" ", "\t", "\n"}

QuestionTexts ==
    { <<>>, <<" ">>, <<"a">>, <<" ", "a", " ">> }

Files ==
    { [name |-> <<"report", ".pdf">>, size |-> 10240, type |-> "application/pdf"],
      [name |-> <<"notes", ".txt">>, size |-> 12, type |-> "text/plain"] }

PdfIds == { "doc-1", "doc-2" }

Answers == { <<"$500">> }

Details == { <<"file too large">> }

(* A response body: unparseable, the JSON value null, or a JSON object with
   optional fields. *)
BadBody == [parses |-> FALSE, isNull |-> FALSE, detail |-> Undefined,
            pdf_id |-> Undefined, answer |-> Undefined]
JsonBody(detail, pdf_id, answer) ==
    [parses |-> TRUE, isNull |-> FALSE, detail |-> detail, pdf_id |-> pdf_id,
     answer |-> answer]
EmptyJson == JsonBody(Undefined, Undefined, Undefined)
NullJson == [parses |-> TRUE, isNull |-> TRUE, detail |-> Undefined,
             pdf_id |-> Undefined, answer |-> Undefined]

NetworkFailure == [net |-> FALSE, status |-> 0, body |-> BadBody]
HttpResponse(status, body) == [net |-> TRUE, status |-> status, body |-> body]

ErrorBodies ==
    { BadBody, EmptyJson, NullJson, JsonBody(Some(<<>>), Undefined, Undefined) }
    \cup { JsonBody(Some(t), Undefined, Undefined) : t \in Details }

UploadResponses ==
    { NetworkFailure, HttpResponse(200, BadBody), HttpResponse(200, EmptyJson),
      HttpResponse(200, NullJson) }
    \cup { HttpResponse(200, JsonBody(Undefined, Some(d), Undefined)) : d \in PdfIds }
    \cup { HttpResponse(413, b) : b \in ErrorBodies }

AskResponses ==
    { NetworkFailure, HttpResponse(200, BadBody), HttpResponse(200, EmptyJson),
      HttpResponse(200, NullJson) }
    \cup { HttpResponse(200, JsonBody(Undefined, Undefined, Some(a))) : a \in Answers }
    \cup { HttpResponse(500, b) : b \in ErrorBodies }

----------------------------------------------------------------------------
(* Pure helpers *)

(* String.prototype.trim *)
RECURSIVE TrimStart(_)
TrimStart(s) ==
    IF s # <<>> /\ Head(s) \in Whitespace THEN TrimStart(Tail(s)) ELSE s

RECURSIVE TrimEnd(_)
TrimEnd(s) ==
    IF s # <<>> /\ s[Len(s)] \in Whitespace
    THEN TrimEnd(SubSeq(s, 1, Len(s) - 1))
    ELSE s

Trim_NoTrimming(s) == s

Trim(s) == TrimEnd(TrimStart(s))

(* String.prototype.includes *)
Contains(s, t) ==
    \E i \in 0..(Len(s) - Len(t)) : SubSeq(s, i + 1, i + Len(t)) = t

(* response.ok *)
ResponseOk(resp) == resp.status \in 200..299

(* The message of the TypeError thrown by reading a field of null. *)
NullReadMessage(field) ==
    <<"Cannot read properties of null (reading '", field, "')">>

(* The message of the Error thrown on a non-ok response. *)
FailureMessage(resp) ==
    LET errorData == IF resp.body.parses
                     THEN resp.body
                     ELSE JsonBody(Some(<<"Unknown error occurred">>),
                                   Undefined, Undefined)
    IN IF errorData.isNull
       THEN NullReadMessage("detail")
       ELSE IF IsDefined(errorData.detail) /\ ValueOf(errorData.detail) # <<>>
       THEN ValueOf(errorData.detail)
       ELSE <<"HTTP error! status: ", ToString(resp.status)>>

(* fetch followed by response.json(): the parsed data, or the thrown error. *)
FetchJson(resp) ==
    IF ~resp.net
    THEN [thrown |-> TRUE, message |-> <<"Failed to fetch">>, data |-> BadBody]
    ELSE IF ~ResponseOk(resp)
    THEN [thrown |-> TRUE, message |-> FailureMessage(resp), data |-> BadBody]
    ELSE IF ~resp.body.parses
    THEN [thrown |-> TRUE, message |-> <<"Unexpected token in JSON">>,
          data |-> BadBody]
    ELSE [thrown |-> FALSE, message |-> <<>>, data |-> resp.body]

(* Reading data.pdf_id or data.answer inside the try block: throws when the
   parsed body is null. *)
ReadField(r, field) ==
    IF ~r.thrown /\ r.data.isNull
    THEN [thrown |-> TRUE, message |-> NullReadMessage(field), data |-> BadBody]
    ELSE r

WelcomeMessage(file) ==
    [id |-> "1", role |-> "assistant",
     content |-> Some(<<"Great! I've loaded **">> \o file.name
                  \o <<"** and processed it successfully. I'm ready to answer any questions you have about this document. What would you like to know?">>),
     timestamp |-> now]

UploadErrorMessage_Generic(msg) ==
    [id |-> "1", role |-> "assistant",
     content |-> Some(<<"Sorry, I encountered an error while uploading your PDF: ">>
                  \o <<"Unknown error">> \o <<". Please try again.">>),
     timestamp |-> now]

UploadErrorMessage(msg) ==
    [id |-> "1", role |-> "assistant",
     content |-> Some(<<"Sorry, I encountered an error while uploading your PDF: ">>
                  \o msg \o <<". Please try again.">>),
     timestamp |-> now]

UserMessage_Trimmed ==
    [id |-> ToString(now), role |-> "user", content |-> Some(Trim(question)),
     timestamp |-> now]

UserMessage ==
    [id |-> ToString(now), role |-> "user", content |-> Some(question),
     timestamp |-> now]

AssistantMessage(data) ==
    [id |-> ToString(now + 1), role |-> "assistant", content |-> data.answer,
     timestamp |-> now]

AskErrorMessage(msg) ==
    [id |-> ToString(now + 1), role |-> "assistant",
     content |-> Some(<<"Sorry, I encountered an error: ">> \o msg
                  \o <<". Please try again.">>),
     timestamp |-> now]

RemoveAt(s, i) == SubSeq(s, 1, i - 1) \o SubSeq(s, i + 1, Len(s))

(* last names the step that produced the current state and its inputs. *)
Record(op, arg) == last' = [op |-> op, arg |-> arg]

----------------------------------------------------------------------------
(* Initial state: App just mounted *)

Init ==
    /\ uploadedFile = Undefined
    /\ messages = <<>>
    /\ isTyping = FALSE
    /\ isUploading = FALSE
    /\ question = <<>>
    /\ uploads = <<>>
    /\ asks = <<>>
    /\ now = ClockStart
    /\ last = [op |-> "mount", arg |-> <<>>]

----------------------------------------------------------------------------
(* Handlers of App *)

handleFileUpload_KeepsLog(file) ==
    /\ Len(uploads) < MaxUploads
    /\ isUploading' = TRUE
    /\ uploads' = Append(uploads, [file |-> file])
    /\ Record("handleFileUpload", [file |-> file])
    /\ UNCHANGED <<messages, uploadedFile, isTyping, question, asks, now>>

(* handleFileUpload up to its await fetch(.../upload) *)
handleFileUpload(file) ==
    /\ Len(uploads) < MaxUploads
    /\ isUploading' = TRUE
    /\ messages' = <<>>
    /\ uploads' = Append(uploads, [file |-> file])
    /\ Record("handleFileUpload", [file |-> file])
    /\ UNCHANGED <<uploadedFile, isTyping, question, asks, now>>

UploadSettled_Appends(i, resp) ==
    LET file == uploads[i].file
        r == ReadField(FetchJson(resp), "pdf_id")
    IN /\ uploads' = RemoveAt(uploads, i)
       /\ IF ~r.thrown
          THEN /\ uploadedFile' = Some([name |-> file.name, size |-> file.size,
                                        pdfId |-> r.data.pdf_id])
               /\ messages' = Append(messages, WelcomeMessage(file))
          ELSE /\ messages' = Append(messages, UploadErrorMessage(r.message))
               /\ UNCHANGED uploadedFile
       /\ isUploading' = FALSE
       /\ Record("UploadSettled", [file |-> file, resp |-> resp,
                                   prior |-> Len(messages)])
       /\ UNCHANGED <<isTyping, question, asks, now>>

(* handleFileUpload from the await to the end of finally *)
UploadSettled(i, resp) ==
    LET file == uploads[i].file
        r == ReadField(FetchJson(resp), "pdf_id")
    IN /\ uploads' = RemoveAt(uploads, i)
       /\ IF ~r.thrown
          THEN /\ uploadedFile' = Some([name |-> file.name, size |-> file.size,
                                        pdfId |-> r.data.pdf_id])
               /\ messages' = <<WelcomeMessage(file)>>
          ELSE /\ messages' = <<UploadErrorMessage(r.message)>>
               /\ UNCHANGED uploadedFile
       /\ isUploading' = FALSE
       /\ Record("UploadSettled", [file |-> file, resp |-> resp,
                                   prior |-> Len(messages)])
       /\ UNCHANGED <<isTyping, question, asks, now>>

handleRemoveFile_KeepsLog ==
    /\ uploadedFile' = Undefined
    /\ question' = <<>>
    /\ Record("handleRemoveFile", <<>>)
    /\ UNCHANGED <<messages, isTyping, isUploading, uploads, asks, now>>

handleRemoveFile_KeepsQuestion ==
    /\ uploadedFile' = Undefined
    /\ messages' = <<>>
    /\ Record("handleRemoveFile", <<>>)
    /\ UNCHANGED <<question, isTyping, isUploading, uploads, asks, now>>

handleRemoveFile ==
    /\ uploadedFile' = Undefined
    /\ messages' = <<>>
    /\ question' = <<>>
    /\ Record("handleRemoveFile", <<>>)
    /\ UNCHANGED <<isTyping, isUploading, uploads, asks, now>>

setQuestion_KeepsFirst(text) ==
    /\ question' = IF question = <<>> THEN text ELSE question
    /\ Record("setQuestion", [text |-> text])
    /\ UNCHANGED <<uploadedFile, messages, isTyping, isUploading, uploads,
                   asks, now>>

setQuestion(text) ==
    /\ question' = text
    /\ Record("setQuestion", [text |-> text])
    /\ UNCHANGED <<uploadedFile, messages, isTyping, isUploading, uploads,
                   asks, now>>

(* handleSendQuestion up to its await fetch(.../ask) *)
handleSendQuestion ==
    /\ Record("handleSendQuestion", <<>>)
    /\ IF Trim(question) = <<>> \/ uploadedFile = Undefined
       THEN UNCHANGED <<uploadedFile, messages, isTyping, isUploading,
                        question, uploads, asks, now>>
       ELSE /\ Len(asks) < MaxAsks
            /\ Len(messages) < MaxMessages
            /\ messages' = Append(messages, UserMessage)
            /\ question' = <<>>
            /\ isTyping' = TRUE
            /\ asks' = Append(asks, [pdf_id |-> ValueOf(uploadedFile).pdfId,
                                     question |-> question])
            /\ UNCHANGED <<uploadedFile, isUploading, uploads, now>>

AskSettled_DropsStale(i, resp) ==
    LET r == ReadField(FetchJson(resp), "answer")
        stale == \/ uploadedFile = Undefined
                 \/ ValueOf(uploadedFile).pdfId # asks[i].pdf_id
    IN /\ asks' = RemoveAt(asks, i)
       /\ messages' = IF stale THEN messages
                      ELSE Append(messages,
                                  IF ~r.thrown THEN AssistantMessage(r.data)
                                               ELSE AskErrorMessage(r.message))
       /\ isTyping' = FALSE
       /\ Record("AskSettled", [req |-> asks[i], resp |-> resp])
       /\ UNCHANGED <<uploadedFile, isUploading, question, uploads, now>>

AskSettled_NoFinally(i, resp) ==
    LET r == ReadField(FetchJson(resp), "answer")
    IN /\ asks' = RemoveAt(asks, i)
       /\ messages' = Append(messages,
                             IF ~r.thrown THEN AssistantMessage(r.data)
                                          ELSE AskErrorMessage(r.message))
       /\ isTyping' = IF r.thrown THEN isTyping ELSE FALSE
       /\ Record("AskSettled", [req |-> asks[i], resp |-> resp])
       /\ UNCHANGED <<uploadedFile, isUploading, question, uploads, now>>

(* handleSendQuestion from the await to the end of finally *)
AskSettled(i, resp) ==
    LET r == ReadField(FetchJson(resp), "answer")
    IN /\ asks' = RemoveAt(asks, i)
       /\ messages' = Append(messages,
                             IF ~r.thrown THEN AssistantMessage(r.data)
                                          ELSE AskErrorMessage(r.message))
       /\ isTyping' = FALSE
       /\ Record("AskSettled", [req |-> asks[i], resp |-> resp])
       /\ UNCHANGED <<uploadedFile, isUploading, question, uploads, now>>

(* The clock read by Date.now() advances. *)
Tick ==
    /\ now < MaxClock
    /\ now' = now + 1
    /\ Record("Tick", <<>>)
    /\ UNCHANGED <<uploadedFile, messages, isTyping, isUploading, question,
                   uploads, asks>>

----------------------------------------------------------------------------
(* What the rendered components let the user do *)

UploadZoneShown_IgnoresFile == ~isUploading

UploadZoneShown_IgnoresUploading == uploadedFile = Undefined

(* PdfUploadZone renders the drop zone and the file input *)
UploadZoneShown == uploadedFile = Undefined /\ ~isUploading

(* PdfUploadZone renders the file card with an enabled remove button *)
RemoveEnabled == uploadedFile # Undefined /\ ~isUploading

InputDisabled_IgnoresTyping == uploadedFile = Undefined

(* disabled prop of QuestionInput *)
InputDisabled == uploadedFile = Undefined \/ isTyping

(* App renders QuestionInput only under a bound file *)
InputShown == uploadedFile # Undefined

(* PdfUploadZone.handleDrop *)
handleDrop(file) ==
    /\ UploadZoneShown
    /\ IF file.type = "application/pdf"
       THEN handleFileUpload(file)
       ELSE /\ Record("handleDrop", [file |-> file])
            /\ UNCHANGED <<uploadedFile, messages, isTyping, isUploading,
                           question, uploads, asks, now>>

(* PdfUploadZone.handleFileSelect *)
handleFileSelect(file) ==
    /\ UploadZoneShown
    /\ handleFileUpload(file)

ClickRemove ==
    /\ RemoveEnabled
    /\ handleRemoveFile

TypeQuestion_IgnoresDisabled(text) ==
    /\ InputShown
    /\ setQuestion(text)

(* The user types text into the input of QuestionInput: onChange fires
   unless the input is disabled, where the keystrokes are ignored. *)
TypeQuestion(text) ==
    /\ InputShown
    /\ IF InputDisabled
       THEN /\ Record("typingIgnored", [text |-> text])
            /\ UNCHANGED <<uploadedFile, messages, isTyping, isUploading,
                           question, uploads, asks, now>>
       ELSE setQuestion(text)

(* QuestionInput.handleKeyDown with Enter *)
handleKeyDown ==
    /\ InputShown
    /\ ~InputDisabled
    /\ handleSendQuestion

(* QuestionInput send button onClick *)
ClickSend ==
    /\ InputShown
    /\ ~(InputDisabled \/ Trim(question) = <<>>)
    /\ handleSendQuestion

UploadCompletes == \E i \in 1..Len(uploads), resp \in UploadResponses :
                       UploadSettled(i, resp)

AskCompletes == \E i \in 1..Len(asks), resp \in AskResponses :
                    AskSettled(i, resp)

DropFile == \E file \in Files : handleDrop(file)

SelectFile == \E file \in Files : handleFileSelect(file)

ChangeQuestion == \E text \in QuestionTexts : TypeQuestion(text)

Next ==
    \/ DropFile
    \/ SelectFile
    \/ ClickRemove
    \/ ChangeQuestion
    \/ handleKeyDown
    \/ ClickSend
    \/ UploadCompletes
    \/ AskCompletes
    \/ Tick

Spec == Init /\ [][Next]_vars

----------------------------------------------------------------------------
(* The handlers of App invoked without the gating of the components *)

CoreFiles == { f \in Files : f.type = "application/pdf" }

CoreUploadResponses ==
    { NetworkFailure,
      HttpResponse(200, JsonBody(Undefined, Some("doc-1"), Undefined)) }

CoreAskResponses ==
    { NetworkFailure }
    \cup { HttpResponse(200, JsonBody(Undefined, Undefined, Some(a))) : a \in Answers }

CallFileUpload == \E file \in CoreFiles : handleFileUpload(file)

CallRemoveFile == handleRemoveFile

CallSetQuestion == \E text \in QuestionTexts : setQuestion(text)

CallSendQuestion ==
    /\ Len(messages) < MaxCoreMessages
    /\ handleSendQuestion

CoreUploadCompletes == \E i \in 1..Len(uploads), resp \in CoreUploadResponses :
                           UploadSettled(i, resp)

CoreAskCompletes == \E i \in 1..Len(asks), resp \in CoreAskResponses :
                        AskSettled(i, resp)

NextCore ==
    \/ CallFileUpload
    \/ CallRemoveFile
    \/ CallSetQuestion
    \/ CallSendQuestion
    \/ CoreUploadCompletes
    \/ CoreAskCompletes
    \/ Tick

SpecCore == Init /\ [][NextCore]_vars

----------------------------------------------------------------------------
(* The rendered application when every remote call eventually returns or
   fails: each outstanding fetch settles, so the continuation of its handler
   eventually runs. *)

LiveSelectFile == \E file \in CoreFiles : handleFileSelect(file)

LiveChangeQuestion == \E text \in QuestionTexts : TypeQuestion(text)

LiveSend ==
    /\ Len(messages) < MaxLiveMessages
    /\ handleKeyDown

LiveUploadCompletes == \E i \in 1..Len(uploads), resp \in CoreUploadResponses :
                           UploadSettled(i, resp)

LiveAskCompletes == \E i \in 1..Len(asks), resp \in CoreAskResponses :
                        AskSettled(i, resp)

NextLive ==
    \/ LiveSelectFile
    \/ ClickRemove
    \/ LiveChangeQuestion
    \/ LiveSend
    \/ LiveUploadCompletes
    \/ LiveAskCompletes
    \/ Tick

SpecLive ==
    /\ Init
    /\ [][NextLive]_vars
    /\ WF_vars(LiveUploadCompletes)
    /\ WF_vars(LiveAskCompletes)

----------------------------------------------------------------------------
(* Properties *)

Blank(s) == \A i \in 1..Len(s) : s[i] \in Whitespace

IsPrefix(s, t) == Len(s) <= Len(t) /\ SubSeq(t, 1, Len(s)) = s

UploadSucceeded(resp) ==
    /\ resp.net
    /\ resp.status \in 200..299
    /\ resp.body.parses
    /\ resp.body.pdf_id # Undefined

UploadFailedWithDetail(resp) ==
    /\ resp.net
    /\ resp.status \notin 200..299
    /\ resp.body.parses
    /\ resp.body.detail # Undefined

(* C1: isUploading and isTyping are never both true, for any interleaving
   of the intents the components enable and of remote completions. *)
C1_MutualExclusion == ~(isUploading /\ isTyping)

(* C2: whenever the message log is non-empty a document is bound. *)
C2_LogImpliesDocument == messages # <<>> => uploadedFile # Undefined

(* C2 as amended: whenever the log holds a user message a document is
   bound; with no document bound the log holds assistant messages only
   (the error of a failed upload, results of asks that completed after the
   document was removed). *)
C2_UserMessageImpliesDocument ==
    uploadedFile = Undefined =>
        \A i \in 1..Len(messages) : messages[i].role = "assistant"

C2_Witness ==
    /\ uploadedFile = Undefined
    /\ Len(messages) = 2
    /\ last.op = "AskSettled"

(* C3: at most one ask request is outstanding at any instant, also when the
   document is removed and a new one uploaded while an ask is in flight. *)
C3_AtMostOneAsk == Len(asks) <= 1

C3_Witness ==
    /\ Len(asks) = 1
    /\ last.op = "UploadSettled"
    /\ uploadedFile # Undefined
    /\ asks[1].pdf_id # ValueOf(uploadedFile).pdfId

(* C4: handleSendQuestion invoked while isTyping is true is a no-op: no
   message appended, question not cleared, no ask request issued. *)
C4_SendIsNoOpWhileTyping ==
    [][(isTyping /\ last'.op = "handleSendQuestion")
        => (messages' = messages /\ question' = question /\ asks' = asks)]_vars

(* C5: handleSendQuestion invoked with an empty or whitespace-only question,
   or with no document bound, leaves the whole store unchanged and issues
   no ask request. *)
C5_BlankOrUnboundSendIsNoOp ==
    [][(last'.op = "handleSendQuestion"
        /\ (Blank(question) \/ uploadedFile = Undefined))
        => (store' = store /\ asks' = asks /\ uploads' = uploads)]_vars

C5_Witness ==
    /\ last.op = "handleSendQuestion"
    /\ question = <<" ">>
    /\ uploadedFile # Undefined
    /\ ~isTyping

(* C6: all messages in the log have pairwise distinct ids. *)
C6_DistinctIds ==
    \A i, j \in 1..Len(messages) :
        i # j => messages[i].id # messages[j].id

(* C7: every step other than handleRemoveFile and the start of an upload
   keeps the previous log as a prefix of the new log. *)
C7_AppendOnly ==
    [][(last'.op \notin {"handleRemoveFile", "handleFileUpload"})
        => IsPrefix(messages, messages')]_vars

(* C8: handleRemoveFile, in any state, yields no document, an empty log and
   an empty question. *)
C8_RemoveResets ==
    last.op = "handleRemoveFile" =>
        /\ uploadedFile = Undefined
        /\ messages = <<>>
        /\ question = <<>>

C8_Witness ==
    /\ last.op = "handleRemoveFile"
    /\ isTyping
    /\ Len(asks) = 1

(* C9: a successful upload of file f returning identifier d yields the
   document {f.name, f.size, d}, isUploading false and a log of exactly one
   assistant message whose content contains f.name, whatever the log held
   before. *)
C9_UploadSuccess ==
    (last.op = "UploadSettled" /\ UploadSucceeded(last.arg.resp)) =>
        /\ uploadedFile = Some([name |-> last.arg.file.name,
                                size |-> last.arg.file.size,
                                pdfId |-> last.arg.resp.body.pdf_id])
        /\ ~isUploading
        /\ Len(messages) = 1
        /\ messages[1].role = "assistant"
        /\ messages[1].content # Undefined
        /\ Contains(ValueOf(messages[1].content), last.arg.file.name)

C9_Witness ==
    /\ last.op = "UploadSettled"
    /\ UploadSucceeded(last.arg.resp)
    /\ last.arg.prior > 0

(* C10: an upload failing with backend detail t yields no document,
   isUploading false and a log of exactly one assistant message whose
   content contains t. *)
C10_UploadFailure ==
    (last.op = "UploadSettled" /\ UploadFailedWithDetail(last.arg.resp)) =>
        /\ uploadedFile = Undefined
        /\ ~isUploading
        /\ Len(messages) = 1
        /\ messages[1].role = "assistant"
        /\ messages[1].content # Undefined
        /\ Contains(ValueOf(messages[1].content),
                    ValueOf(last.arg.resp.body.detail))

C10_Witness ==
    /\ last.op = "UploadSettled"
    /\ UploadFailedWithDetail(last.arg.resp)
    /\ ValueOf(last.arg.resp.body.detail) = <<"file too large">>

AskSucceeded(resp) ==
    /\ resp.net
    /\ resp.status \in 200..299
    /\ resp.body.parses
    /\ resp.body.answer # Undefined

UploadFailed(resp) ==
    \/ ~resp.net
    \/ resp.status \notin 200..299
    \/ ~resp.body.parses
    \/ resp.body.isNull

AskRejected(resp) ==
    \/ ~resp.net
    \/ resp.status \notin 200..299
    \/ ~resp.body.parses
    \/ resp.body.isNull

(* C11: with a document bound, isTyping false and a non-blank question q,
   a send appends one user message whose content is q as entered, empties
   question, sets isTyping and issues one ask carrying the bound pdfId and
   q; when that ask succeeds with answer a in the very next step, the log
   gains one assistant message with content a right after that user message
   and isTyping becomes false. *)
C11_QuestionAnswerExchange ==
    [][/\ (/\ last'.op = "handleSendQuestion"
           /\ uploadedFile # Undefined
           /\ ~isTyping
           /\ ~Blank(question))
          => /\ Len(messages') = Len(messages) + 1
             /\ IsPrefix(messages, messages')
             /\ messages'[Len(messages')].role = "user"
             /\ messages'[Len(messages')].content = Some(question)
             /\ question' = <<>>
             /\ isTyping'
             /\ asks' = Append(asks, [pdf_id |-> ValueOf(uploadedFile).pdfId,
                                      question |-> question])
       /\ (/\ last.op = "handleSendQuestion"
           /\ isTyping
           /\ last'.op = "AskSettled"
           /\ AskSucceeded(last'.arg.resp))
          => /\ Len(messages') = Len(messages) + 1
             /\ IsPrefix(messages, messages')
             /\ messages[Len(messages)].role = "user"
             /\ messages'[Len(messages')].role = "assistant"
             /\ messages'[Len(messages')].content = last'.arg.resp.body.answer
             /\ ~isTyping'
      ]_vars

C11_Witness ==
    /\ last.op = "AskSettled"
    /\ AskSucceeded(last.arg.resp)
    /\ uploadedFile # Undefined
    /\ Len(messages) >= 3
    /\ messages[Len(messages) - 1].role = "user"
    /\ messages[Len(messages) - 1].content = Some(<<" ", "a", " ">>)
    /\ messages[Len(messages)].content = Some(<<"$500">>)
    /\ last.arg.req.question = <<" ", "a", " ">>

(* C12: right after an upload failure a new upload can be started (no
   document, isUploading false); right after an answer failure with the
   document still bound a send is possible again (isTyping false). *)
C12_FailureDoesNotBlock ==
    /\ (last.op = "UploadSettled" /\ UploadFailed(last.arg.resp))
          => (uploadedFile = Undefined /\ ~isUploading)
    /\ (last.op = "AskSettled" /\ AskRejected(last.arg.resp)
           /\ uploadedFile # Undefined)
          => ~isTyping

C12_Witness ==
    /\ last.op = "AskSettled"
    /\ AskRejected(last.arg.resp)
    /\ uploadedFile # Undefined
    /\ ~isTyping
    /\ ~isUploading

UploadErrorPrefix == <<"Sorry, I encountered an error while uploading your PDF: ">>

AskErrorPrefix == <<"Sorry, I encountered an error: ">>

(* C13: when every remote call eventually returns or fails, isUploading
   (resp. isTyping) once true eventually becomes false again, and the step
   that clears it writes the result message of the flow (welcome or answer,
   or error) to the current log, also after the document was removed or
   another flow was started in between. *)
C13_FlowsComplete ==
    /\ isUploading ~> ~isUploading
    /\ isTyping ~> ~isTyping
    /\ [][/\ (isUploading /\ ~isUploading')
             => /\ last'.op = "UploadSettled"
                /\ messages' # <<>>
                /\ messages'[Len(messages')].role = "assistant"
                /\ messages'[Len(messages')].content # Undefined
                /\ Contains(ValueOf(messages'[Len(messages')].content),
                            IF UploadFailed(last'.arg.resp)
                            THEN UploadErrorPrefix
                            ELSE last'.arg.file.name)
          /\ (isTyping /\ ~isTyping')
             => /\ last'.op = "AskSettled"
                /\ Len(messages') = Len(messages) + 1
                /\ IsPrefix(messages, messages')
                /\ messages'[Len(messages')].role = "assistant"
                /\ AskSucceeded(last'.arg.resp)
                   => messages'[Len(messages')].content
                          = last'.arg.resp.body.answer
                /\ AskRejected(last'.arg.resp)
                   => /\ messages'[Len(messages')].content # Undefined
                      /\ Contains(ValueOf(messages'[Len(messages')].content),
                                  AskErrorPrefix)
         ]_vars

C13_Witness ==
    /\ last.op = "AskSettled"
    /\ isUploading
    /\ uploadedFile = Undefined
    /\ Len(messages) = 1
    /\ ~isTyping

(* C14: in the state produced by the upload completion that binds a
   document, question is empty and the log holds nothing from before that
   upload began: it is exactly the one message created by this step. *)
C14_NoCarryoverOnBind ==
    (last.op = "UploadSettled" /\ ~UploadFailed(last.arg.resp)) =>
        /\ uploadedFile # Undefined
        /\ question = <<>>
        /\ Len(messages) = 1
        /\ messages[1].id = "1"
        /\ messages[1].role = "assistant"
        /\ messages[1].timestamp = now

C14_Witness ==
    /\ last.op = "UploadSettled"
    /\ ~UploadFailed(last.arg.resp)
    /\ Len(asks) = 1
    /\ isTyping

(* C15: an accepted send that follows setQuestion calls appends a user
   message, and issues an ask, carrying the text of the last setQuestion
   call: staging overwrites, it never queues. *)
C15_LastStagedTextIsSent ==
    [][(/\ last.op = "setQuestion"
        /\ last'.op = "handleSendQuestion"
        /\ messages' # messages)
       => /\ Len(messages') = Len(messages) + 1
          /\ messages'[Len(messages')].content = Some(last.arg.text)
          /\ Len(asks') = Len(asks) + 1
          /\ asks'[Len(asks')].question = last.arg.text
          /\ question' = <<>>
      ]_vars

C15_Witness ==
    /\ last.op = "handleSendQuestion"
    /\ Len(asks) = 1
    /\ asks[1].question = <<"a">>
    /\ Len(messages) >= 4
    /\ messages[Len(messages)].content = Some(<<"a">>)
    /\ messages[Len(messages) - 2].role = "user"
    /\ messages[Len(messages) - 2].content = Some(<<" ", "a", " ">>)

(* C16: in the state right after an upload begins, isUploading is true, the
   log is empty and no document is bound. *)
C16_UploadBegins ==
    last.op = "handleFileUpload" =>
        /\ isUploading
        /\ messages = <<>>
        /\ uploadedFile = Undefined

C16_Witness ==
    /\ last.op = "handleFileUpload"
    /\ Len(asks) = 1
    /\ Len(uploads) = 1

(* C17: at most one upload request is outstanding at any instant: an upload
   starts only when isUploading is false and no document is bound. *)
C17_AtMostOneUpload ==
    /\ [](Len(uploads) <= 1)
    /\ [][last'.op = "handleFileUpload"
            => (~isUploading /\ uploadedFile = Undefined /\ uploads = <<>>)]_vars

C17_Witness ==
    /\ Len(uploads) = 1
    /\ last.op = "AskSettled"
    /\ isUploading

(* C18: while isTyping is true, staging a question is rejected: question
   keeps its value for every text the user types. *)
C18_StagingRejectedWhileTyping ==
    [][(isTyping /\ last'.op \in {"setQuestion", "typingIgnored"})
        => question' = question]_vars

C18_Witness ==
    /\ last.op = "typingIgnored"
    /\ last.arg.text = <<"a">>
    /\ isTyping
    /\ question = <<>>

NonSuccess(resp) == resp.net /\ resp.status \notin 200..299

ExpectedFailureText(resp) ==
    CASE ~resp.body.parses -> <<"Unknown error occurred">>
      [] resp.body.parses /\ resp.body.detail # Undefined
           /\ ValueOf(resp.body.detail) # <<>> -> ValueOf(resp.body.detail)
      [] OTHER -> <<"HTTP error! status: ", ToString(resp.status)>>

ErrorSuffix == <<". Please try again.">>

(* C19: for a non-success response of either remote operation the failure
   text shown is the detail string of the body when the body parses with a
   non-empty detail, 'Unknown error occurred' when the body does not parse,
   and 'HTTP error! status: <code>' when it parses without a (non-empty)
   detail. *)
C19_FailureText ==
    /\ (last.op = "UploadSettled" /\ NonSuccess(last.arg.resp))
          => messages[Len(messages)].content
                 = Some(UploadErrorPrefix \o ExpectedFailureText(last.arg.resp)
                        \o ErrorSuffix)
    /\ (last.op = "AskSettled" /\ NonSuccess(last.arg.resp))
          => messages[Len(messages)].content
                 = Some(AskErrorPrefix \o ExpectedFailureText(last.arg.resp)
                        \o ErrorSuffix)

AskFailedAnyKind(resp) ==
    \/ AskRejected(resp)
    \/ resp.body.answer = Undefined

(* C20: every kind of failure of an ask (network failure, non-2xx status,
   success status with an unparseable body or a body lacking answer) appends
   exactly one assistant message embedding a failure reason, clears
   isTyping and leaves the document as it was. *)
C20_AskFailuresEndAlike ==
    [][(last'.op = "AskSettled" /\ AskFailedAnyKind(last'.arg.resp))
        => /\ Len(messages') = Len(messages) + 1
           /\ IsPrefix(messages, messages')
           /\ messages'[Len(messages')].role = "assistant"
           /\ messages'[Len(messages')].content # Undefined
           /\ Contains(ValueOf(messages'[Len(messages')].content),
                       AskErrorPrefix)
           /\ ~isTyping'
           /\ uploadedFile' = uploadedFile
      ]_vars

(* A message written by an upload completion carries the fixed id "1"; the
   other assistant messages are written by ask completions. *)
FromAskCompletion(m) == m.role = "assistant" /\ m.id # "1"

(* C21: while a document D is bound, every answer or error message in the
   log written by an ask completion belongs to a question sent while D was
   bound, that is, it directly follows the user message of that question in
   D's log; a result of an ask started against an earlier document never
   lands in D's log. *)
C21_NoCrossSessionAnswers ==
    uploadedFile # Undefined =>
        \A i \in 1..Len(messages) :
            FromAskCompletion(messages[i])
                => (i > 1 /\ messages[i - 1].role = "user")

====
